---- MODULE Spec2Model ----
(***************************************************************************)
(* The storage SCP session loop of movescu/src/store_async.rs              *)
(* (run_store_async): one association, PDUs received one at a time, PDVs   *)
(* dispatched in array order, objects decoded, written and acknowledged.   *)
(***************************************************************************)
EXTENDS Integers, Sequences, FiniteSets, TLC

\* ------------------------------------------------------------------ bounds
\* receive() calls made on one association
MaxPdus == 2
\* PDVs carried by one P-DATA PDU
MaxPdvs == 2

\* bytes the reassembly buffer may hold (elements)
MaxBuf == 3

\* ------------------------------------------------------------ byte strings
\* A string is a sequence of characters; NUL is the pad character '\0'.
NUL == "NUL"
EmptyStr == << >>

\* Affected / object UIDs the peer may use.
ClassA == <<"c">>
ClassB == <<"d">>
InstA == <<"a">>
InstAPadded == <<"a", NUL>>
InstB == <<"b">>
InstBPadded == <<"b", NUL, NUL>>

\* A payload is a sequence of encoded elements: tag, value representation,
\* and the value (num for numeric VRs, str for string VRs). An element the
\* decoder cannot read is the element tagged "BAD".
Elem(t, vr, n, s) == [tag |-> t, vr |-> vr, num |-> n, str |-> s]
BadElem == Elem("BAD", "??", 0, EmptyStr)

\* ------------------------------------------------------- library decoding
\* InMemDicomObject::read_dataset_with_ts: the elements in order, or an
\* error when some element cannot be read.
DecodeOk(bytes, ts) == \A i \in 1..Len(bytes) : bytes[i].tag /= "BAD"

\* obj.element(tag): present or not; a repeated tag keeps the last one read.
HasElement(obj, t) == \E i \in 1..Len(obj) : obj[i].tag = t
Element(obj, t) ==
    LET i == CHOOSE k \in 1..Len(obj) :
                 /\ obj[k].tag = t
                 /\ \A j \in (k+1)..Len(obj) : obj[j].tag /= t
    IN  obj[i]

\* .uint16() / .to_int(): only a numeric value converts.
IsInt(e) == e.vr = "US"
ToInt(e) == e.num
\* .to_str().to_string(): the string value of the element; the pad
\* character is still there for line 240 to strip.
ToStr(e) == e.str

\* str::trim_end_matches('\0')
RECURSIVE trim_end_matches(_)
trim_end_matches(s) ==
    IF s /= << >> /\ s[Len(s)] = NUL
    THEN trim_end_matches(SubSeq(s, 1, Len(s) - 1))
    ELSE s

\* --------------------------------------------------------------- the peer
\* Presentation contexts negotiated for the association.
presentation_contexts ==
    << [id |-> 1, transfer_syntax |-> "ImplicitVRLittleEndian"],
       [id |-> 3, transfer_syntax |-> "ExplicitVRLittleEndian"] >>
\* Presentation-context ids a PDV may carry (5 was never negotiated).
PcIds == {1, 3, 5}

\* A C-STORE request command set.
CommandSet(m, c, i) ==
    << Elem("CommandField", "US", 1, EmptyStr),
       Elem("MessageID", "US", m, EmptyStr),
       Elem("AffectedSOPClassUID", "UI", 0, c),
       Elem("AffectedSOPInstanceUID", "UI", 0, i) >>
Without(s, k) == SubSeq(s, 1, k - 1) \o SubSeq(s, k + 1, Len(s))
NotInt(s, k) == [s EXCEPT ![k] = Elem(s[k].tag, "LO", 0, <<"x">>)]

GoodCommands ==
    { CommandSet(7, ClassA, InstA),
      CommandSet(9, ClassB, InstAPadded),
      CommandSet(9, ClassA, InstBPadded) }
BadCommands ==
    { Without(CommandSet(7, ClassA, InstA), k) : k \in 1..4 }
    \cup { NotInt(CommandSet(7, ClassA, InstA), k) : k \in 1..2 }
    \cup { <<BadElem>> }

\* Elements of a data set.
SopClassElem == Elem("SOPClassUID", "UI", 0, ClassA)
SopInstanceElem == Elem("SOPInstanceUID", "UI", 0, InstA)
DataPayloads ==
    { <<SopClassElem>>, <<SopInstanceElem>>,
      <<SopClassElem, SopInstanceElem>>, <<BadElem>> }

PDataValue(pcid, vt, last, d) ==
    [presentation_context_id |-> pcid, value_type |-> vt,
     is_last |-> last, data |-> d]

\* The PDVs a peer may put into a P-DATA PDU. Terminal Data PDVs come on
\* every context id; fragments come on context 1 and, with one payload, on
\* context 3.
Pdvs ==
    { PDataValue(1, "Command", TRUE, d) : d \in GoodCommands \cup BadCommands }
    \cup { PDataValue(1, "Command", FALSE, d) :
              d \in { CommandSet(7, ClassA, InstA), <<SopClassElem>> } }
    \cup { PDataValue(p, "Data", TRUE, d) : p \in PcIds, d \in DataPayloads }
    \cup { PDataValue(1, "Data", FALSE, d) : d \in DataPayloads }
    \cup { PDataValue(3, "Data", FALSE, <<SopClassElem>>) }

\* ------------------------------------------------------------------ state
VARIABLES
    pc,                \* "receive" | "dispatch" | "teardown" | "returned"
    data_left,         \* PDVs of the current P-DATA PDU not yet iterated
    instance_buffer,   \* the reassembly buffer
    msgid,             \* pending request: message id
    sop_class_uid,     \* pending request: affected SOP class UID
    sop_instance_uid,  \* pending request: affected SOP instance UID
    result,            \* what run_store_async returned
    teardown_log,      \* the "Dropping connection" log line
    nrecv,             \* receive() calls made
    pdu,               \* the PDU received last: its kind and its PDV count
    events,            \* file writes, sends and release/abort receipts, in order
    written,           \* the file written by the step just taken
    sent,              \* the PDU sent by the step just taken
    step,              \* the PDV dispatched by that step, and how its I/O went
    unit,              \* the data unit handed to the decoder by that step
    state,             \* Running | Released | Aborted | Failed
    cause,             \* why the loop ended
    last_cmd,          \* the command unit completed last
    prev_terminal,     \* the kind of the terminal PDV dispatched last
    frags,             \* Data payloads received since that terminal PDV
    frag_pcs,          \* the presentation-context ids those payloads came on
    tally              \* terminal Data PDVs dispatched, and processed without error

vars == << pc, data_left, instance_buffer, msgid, sop_class_uid,
           sop_instance_uid, result, teardown_log, nrecv, pdu, events,
           written, sent, step, unit, state, cause, last_cmd,
           prev_terminal, frags, frag_pcs, tally >>

NoError == "none"
NoResult == [ok |-> FALSE, err |-> "pending"]
OkTrue == [ok |-> TRUE, err |-> NoError]
Err(msg) == [ok |-> FALSE, err |-> msg]

NoCmd == [set |-> FALSE, msgid |-> 0, sop_class_uid |-> EmptyStr,
          sop_instance_uid |-> EmptyStr]
NoMeta == [media_storage_sop_class_uid |-> EmptyStr,
           media_storage_sop_instance_uid |-> EmptyStr,
           transfer_syntax |-> "none"]
NoFile == [path |-> EmptyStr, meta |-> NoMeta, obj |-> << >>]
NoPdu == [type |-> "none", data |-> << >>]
NoUnit == [n |-> 0, bytes |-> << >>, frags |-> << >>, pcs |-> {},
           after |-> "none", cmd |-> NoCmd, err |-> NoError]
NoPdv == [presentation_context_id |-> 0, value_type |-> "none",
          is_last |-> FALSE, data |-> << >>]
NoStep == [pdv |-> NoPdv, write_ok |-> TRUE, send_ok |-> TRUE, dropped |-> 0]
NoneReceived == [type |-> "none", len |-> 0]
Received(t, n) == [type |-> t, len |-> n]

\* The concatenation of payloads in receipt order.
RECURSIVE Flatten(_)
Flatten(fs) == IF fs = << >> THEN << >> ELSE Head(fs) \o Flatten(Tail(fs))

prog == << instance_buffer, msgid, sop_class_uid, sop_instance_uid >>

\* A step that writes no file, sends nothing and decodes no data unit.
NoOutput == written' = NoFile /\ sent' = NoPdu /\ unit' = NoUnit
ghost == << last_cmd, prev_terminal, frags, frag_pcs, tally >>

Event(k, w, u, ok) == [kind |-> k, what |-> w, unit |-> u, ok |-> ok]

\* lines 107-110: the buffer and the placeholder request state
InitMsgId == 1
Init ==
    /\ pc = "receive"
    /\ data_left = 0
    /\ instance_buffer = << >>
    /\ msgid = InitMsgId
    /\ sop_class_uid = EmptyStr
    /\ sop_instance_uid = EmptyStr
    /\ result = NoResult
    /\ teardown_log = "none"
    /\ nrecv = 0
    /\ pdu = NoneReceived
    /\ events = << >>
    /\ written = NoFile
    /\ sent = NoPdu
    /\ step = NoStep
    /\ unit = NoUnit
    /\ state = "Running"
    /\ cause = "none"
    /\ last_cmd = NoCmd
    /\ prev_terminal = "none"
    /\ frags = << >>
    /\ frag_pcs = {}
    /\ tally = [term |-> 0, ok |-> 0]

\* ----------------------------------------------------- the receive match
\* A loop whose `break` arms fall through to the next receive().
CanReceiveAfterBreak == pc \in { "receive", "teardown" } /\ nrecv < MaxPdus

\* association.receive().await is called at the top of the loop only.
CanReceive == pc = "receive"

\* The peer sends at most MaxPdus PDUs that keep the association open; the
\* PDU or the transport error that ends it may follow at any time.
MorePdus == nrecv < MaxPdus

\* A loop that iterates the PDVs of every P-DATA PDU, the empty one too.
PcAfterPDataNoSkip(n) == "dispatch"

\* lines 154-157: an empty P-DATA is skipped with `continue`; otherwise
\* the PDVs are iterated.
PcAfterPData(n) == IF n = 0 THEN "receive" ELSE "dispatch"

\* lines 153-159: a P-DATA PDU of n PDVs.
ReceivePData ==
    /\ CanReceive
    /\ MorePdus
    /\ \E n \in 0..MaxPdvs :
         /\ data_left' = n
         /\ pc' = PcAfterPData(n)
         /\ pdu' = Received("PData", n)
    /\ nrecv' = nrecv + 1
    /\ NoOutput
    /\ step' = NoStep
    /\ UNCHANGED << prog, events, result, teardown_log, state, cause, ghost >>

\* A release that is logged but never answered.
ReleaseEventsNoReply(send_ok) == << Event("recv", "ReleaseRQ", 0, TRUE) >>

\* lines 279-291: the release response is sent best-effort, then `break`.
ReleaseEvents(send_ok) ==
    << Event("recv", "ReleaseRQ", 0, TRUE),
       Event("send", "ReleaseRP", 0, send_ok) >>

\* A release whose response is sent with `?`: a failed send is returned.
AfterReleaseSendStrict(send_ok) ==
    IF send_ok
    THEN /\ pc' = "teardown"
         /\ state' = "Released"
         /\ cause' = "release"
         /\ UNCHANGED result
    ELSE /\ pc' = "returned"
         /\ state' = "Failed"
         /\ cause' = "fatal"
         /\ result' = Err("failed to send release response")

\* lines 280-290: unwrap_or_else turns a failed send into a warning; the arm
\* ends in `break` whatever the outcome.
AfterReleaseSend(send_ok) ==
    /\ pc' = "teardown"
    /\ state' = "Released"
    /\ cause' = "release"
    /\ UNCHANGED result
ReceiveReleaseRQ ==
    /\ CanReceive
    /\ \E send_ok \in BOOLEAN :
         /\ events' = events \o ReleaseEvents(send_ok)
         /\ sent' = IF send_ok THEN [type |-> "ReleaseRP", data |-> << >>]
                               ELSE NoPdu
         /\ AfterReleaseSend(send_ok)
    /\ written' = NoFile
    /\ unit' = NoUnit
    /\ step' = NoStep
    /\ nrecv' = nrecv + 1
    /\ pdu' = Received("ReleaseRQ", 0)
    /\ UNCHANGED << prog, data_left, teardown_log, ghost >>

\* An abort answered like a release.
AbortEventsWithReply ==
    << Event("recv", "AbortRQ", 0, TRUE), Event("send", "ReleaseRP", 0, TRUE) >>

\* lines 292-295: an abort is logged, nothing is sent, then `break`.
AbortEvents == << Event("recv", "AbortRQ", 0, TRUE) >>
ReceiveAbortRQ ==
    /\ CanReceive
    /\ events' = events \o AbortEvents
    /\ NoOutput
    /\ step' = NoStep
    /\ nrecv' = nrecv + 1
    /\ pdu' = Received("AbortRQ", 0)
    /\ pc' = "teardown"
    /\ state' = "Aborted"
    /\ cause' = "abort"
    /\ UNCHANGED << prog, data_left, result, teardown_log, ghost >>

\* A loop that ends on a PDU it does not expect.
ReceiveOtherEndsLoop ==
    /\ CanReceive
    /\ MorePdus
    /\ nrecv' = nrecv + 1
    /\ pdu' = Received("Other", 0)
    /\ NoOutput
    /\ step' = NoStep
    /\ pc' = "teardown"
    /\ state' = "Failed"
    /\ cause' = "receive_error"
    /\ UNCHANGED << prog, data_left, events, result, teardown_log, ghost >>

\* line 296: any other PDU is ignored.
ReceiveOther ==
    /\ CanReceive
    /\ MorePdus
    /\ nrecv' = nrecv + 1
    /\ pdu' = Received("Other", 0)
    /\ NoOutput
    /\ step' = NoStep
    /\ UNCHANGED << pc, prog, data_left, events, result, teardown_log, state,
                    cause, ghost >>

\* lines 299-311: a receive error of either kind is logged, then `break`.
ReceiveError ==
    /\ CanReceive
    /\ nrecv' = nrecv + 1
    /\ pdu' = Received("error", 0)
    /\ NoOutput
    /\ step' = NoStep
    /\ pc' = "teardown"
    /\ state' = "Failed"
    /\ cause' = "receive_error"
    /\ UNCHANGED << prog, data_left, events, result, teardown_log, ghost >>

\* lines 314-324: the teardown log line, then Ok(true).
Teardown ==
    /\ pc = "teardown"
    /\ \E peer_addr_ok \in BOOLEAN :
         teardown_log' = IF peer_addr_ok THEN "with_peer_addr"
                                         ELSE "without_peer_addr"
    /\ result' = OkTrue
    /\ pc' = "returned"
    /\ NoOutput
    /\ step' = NoStep
    /\ UNCHANGED << prog, data_left, events, nrecv, pdu, state, cause, ghost >>

\* ------------------------------------------------------- the PDV dispatch
\* `for data_value in data`: the next PDV of the PDU in flight; after the
\* last one the loop calls receive() again. The loop reads each PDV once and
\* in array order, so a PDV's content is drawn when the loop reaches it and
\* data_left counts the PDVs still to come.
CanDispatch == pc = "dispatch" /\ data_left > 0
\* A PDV loop that never hands control back to receive().
NextPdvNoReceive ==
    /\ data_left' = data_left - 1
    /\ pc' = "dispatch"

NextPdv ==
    /\ data_left' = data_left - 1
    /\ pc' = IF data_left = 1 THEN "receive" ELSE "dispatch"

\* An error that leaves the loop with `break` instead of returning.
PcAfterErrorBreak == "teardown"
\* An error that is swallowed: the loop goes on with the next PDV.
Recover(msg) ==
    /\ NextPdv
    /\ UNCHANGED << result, state, cause >>

\* The `?` operator: the error is returned from run_store_async at once,
\* past the rest of the PDU, the loop and the teardown lines.
PcAfterError == "returned"
Fatal(msg) ==
    /\ data_left' = data_left - 1
    /\ pc' = PcAfterError
    /\ result' = Err(msg)
    /\ state' = "Failed"
    /\ cause' = "fatal"

Fits(pdv) == Len(instance_buffer) + Len(pdv.data) <= MaxBuf

\* A buffer that grows at the front.
PrependFragment(buf, d) == d \o buf

\* lines 160-162: Data, not last: instance_buffer.append(&mut data_value.data)
\* A dispatcher that acknowledges every Data fragment.
DispatchFragmentAcked ==
    /\ CanDispatch
    /\ \E pdv \in Pdvs :
         /\ pdv.value_type = "Data" /\ ~pdv.is_last
         /\ Fits(pdv)
         /\ instance_buffer' = instance_buffer \o pdv.data
         /\ frags' = Append(frags, pdv.data)
         /\ frag_pcs' = frag_pcs \cup { pdv.presentation_context_id }
         /\ step' = [NoStep EXCEPT !.pdv = pdv]
         /\ sent' = [type |-> "PData",
                     data |-> << PDataValue(pdv.presentation_context_id,
                                            "Command", TRUE, << >>) >>]
    /\ events' = Append(events, Event("send", "PData", 0, TRUE))
    /\ NextPdv
    /\ written' = NoFile
    /\ unit' = NoUnit
    /\ UNCHANGED << msgid, sop_class_uid, sop_instance_uid, result,
                    teardown_log, nrecv, pdu, state, cause, last_cmd,
                    prev_terminal, tally >>

AppendFragment(buf, d) == buf \o d
DispatchFragment ==
    /\ CanDispatch
    /\ \E pdv \in Pdvs :
         /\ pdv.value_type = "Data" /\ ~pdv.is_last
         /\ Fits(pdv)
         /\ instance_buffer' = AppendFragment(instance_buffer, pdv.data)
         /\ frags' = Append(frags, pdv.data)
         /\ frag_pcs' = frag_pcs \cup { pdv.presentation_context_id }
         /\ step' = [NoStep EXCEPT !.pdv = pdv]
    /\ NextPdv
    /\ NoOutput
    /\ UNCHANGED << msgid, sop_class_uid, sop_instance_uid, events, result,
                    teardown_log, nrecv, pdu, state, cause, last_cmd,
                    prev_terminal, tally >>

\* A dispatcher that collects Command fragments in the reassembly buffer.
DispatchCommandFragment ==
    /\ CanDispatch
    /\ \E pdv \in Pdvs :
         /\ pdv.value_type = "Command" /\ ~pdv.is_last
         /\ Fits(pdv)
         /\ instance_buffer' = AppendFragment(instance_buffer, pdv.data)
         /\ step' = [NoStep EXCEPT !.pdv = pdv]
    /\ NextPdv
    /\ NoOutput
    /\ UNCHANGED << msgid, sop_class_uid, sop_instance_uid, events, result,
                    teardown_log, nrecv, pdu, state, cause, ghost >>

\* lines 159-276: Command, not last matches none of the three branches.
DispatchIgnored ==
    /\ CanDispatch
    /\ \E pdv \in Pdvs :
         /\ pdv.value_type = "Command" /\ ~pdv.is_last
         /\ step' = [NoStep EXCEPT !.pdv = pdv]
    /\ NextPdv
    /\ NoOutput
    /\ UNCHANGED << prog, events, result, teardown_log, nrecv, pdu, state,
                    cause, ghost >>

\* lines 166-198: the command set is read from the PDV's own payload; the
\* first check that fails returns its error.
CommandError(v) ==
    IF ~DecodeOk(v, "ImplicitVRLittleEndian")
        THEN "failed to read incoming DICOM command"
    ELSE IF ~HasElement(v, "CommandField") THEN "Missing Command Field"
    ELSE IF ~IsInt(Element(v, "CommandField"))
        THEN "Command Field is not an integer"
    ELSE IF ~HasElement(v, "MessageID") THEN "Missing Message ID"
    ELSE IF ~IsInt(Element(v, "MessageID")) THEN "Message ID is not an integer"
    ELSE IF ~HasElement(v, "AffectedSOPClassUID")
        THEN "missing Affected SOP Class UID"
    ELSE IF ~HasElement(v, "AffectedSOPInstanceUID")
        THEN "missing Affected SOP Instance UID"
    ELSE NoError

\* lines 180-184, 185-190, 191-198: each assignment runs once the checks
\* before it have passed.
MsgIdAssigned(err) ==
    err \in { NoError, "missing Affected SOP Class UID",
              "missing Affected SOP Instance UID" }
ClassAssigned(err) == err \in { NoError, "missing Affected SOP Instance UID" }
CommandMsgId(v) == ToInt(Element(v, "MessageID"))
CommandClass(v) == ToStr(Element(v, "AffectedSOPClassUID"))
CommandInstance(v) == ToStr(Element(v, "AffectedSOPInstanceUID"))
\* A command that leaves the reassembly buffer as it found it.
BufferKept(buf) == buf

\* line 199: instance_buffer.clear()
BufferAfterCommand(buf) == << >>

\* The request a command payload states: the values of its message id and
\* affected UID elements.
RequestOf(v) ==
    [set |-> TRUE,
     msgid |-> Element(v, "MessageID").num,
     sop_class_uid |-> Element(v, "AffectedSOPClassUID").str,
     sop_instance_uid |-> Element(v, "AffectedSOPInstanceUID").str]

\* lines 163-199: Command, last.
DispatchCommand ==
    /\ CanDispatch
    /\ \E pdv \in Pdvs :
         /\ pdv.value_type = "Command" /\ pdv.is_last
         /\ step' = [NoStep EXCEPT
                        !.pdv = pdv,
                        !.dropped = IF CommandError(pdv.data) = NoError
                                    THEN Len(instance_buffer) ELSE 0]
         /\ LET v == pdv.data
                err == CommandError(v)
            IN  /\ msgid' = IF MsgIdAssigned(err) THEN CommandMsgId(v) ELSE msgid
                /\ sop_class_uid' =
                       IF ClassAssigned(err) THEN CommandClass(v) ELSE sop_class_uid
                /\ IF err = NoError
                   THEN /\ sop_instance_uid' = CommandInstance(v)
                        /\ instance_buffer' = BufferAfterCommand(instance_buffer)
                        /\ last_cmd' = RequestOf(v)
                        /\ prev_terminal' = "Command"
                        /\ frags' = << >>
                        /\ frag_pcs' = {}
                        /\ UNCHANGED tally
                        /\ NextPdv
                        /\ UNCHANGED << result, state, cause >>
                   ELSE /\ Fatal(err)
                        /\ UNCHANGED << sop_instance_uid, instance_buffer,
                                        ghost >>
    /\ NoOutput
    /\ UNCHANGED << events, teardown_log, nrecv, pdu >>

\* lines 205-210: the presentation context of the PDV, by id. Its transfer
\* syntax was accepted from the registry (lines 119-129), so the registry
\* lookup of line 214 finds it.
KnownPc(pcid) ==
    \E i \in 1..Len(presentation_contexts) : presentation_contexts[i].id = pcid
TransferSyntaxOf(pcid) ==
    LET i == CHOOSE k \in 1..Len(presentation_contexts) :
                 /\ presentation_contexts[k].id = pcid
                 /\ \A j \in 1..(k-1) : presentation_contexts[j].id /= pcid
    IN  presentation_contexts[i].transfer_syntax

\* lines 205-275: the first step that fails returns its error.
DataError(buf, pcid, write_ok, send_ok) ==
    IF ~KnownPc(pcid) THEN "missing presentation context"
    ELSE IF ~DecodeOk(buf, TransferSyntaxOf(pcid))
        THEN "failed to read DICOM data object"
    ELSE IF ~HasElement(buf, "SOPClassUID") THEN "missing SOP Class UID"
    ELSE IF ~HasElement(buf, "SOPInstanceUID") THEN "missing SOP Instance UID"
    ELSE IF ~write_ok THEN "could not save DICOM object to file"
    ELSE IF ~send_ok THEN "failed to send response object to SCU"
    ELSE NoError

\* lines 217-235: the file meta table and the object
FileMeta(obj, ts) ==
    [media_storage_sop_class_uid |-> ToStr(Element(obj, "SOPClassUID")),
     media_storage_sop_instance_uid |-> ToStr(Element(obj, "SOPInstanceUID")),
     transfer_syntax |-> ts]
\* A file name built from the request instance UID as received.
FilePathRaw(uid) == <<"out_dir", "/">> \o uid \o <<".dcm">>
\* lines 238-241: out_dir joined with the trimmed request instance UID
FilePath(uid) == <<"out_dir", "/">> \o trim_end_matches(uid) \o <<".dcm">>
StoredFile(buf, pcid, uid) ==
    [path |-> FilePath(uid),
     meta |-> FileMeta(buf, TransferSyntaxOf(pcid)),
     obj |-> buf]

\* A response with the two affected UIDs in each other's place.
create_cstore_response_swapped(message_id, class_uid, instance_uid) ==
    << Elem("AffectedSOPClassUID", "UI", 0, instance_uid),
       Elem("CommandField", "US", 32769, EmptyStr),
       Elem("MessageIDBeingRespondedTo", "US", message_id, EmptyStr),
       Elem("CommandDataSetType", "US", 257, EmptyStr),
       Elem("Status", "US", 0, EmptyStr),
       Elem("AffectedSOPInstanceUID", "UI", 0, class_uid) >>

\* lines 52-81
create_cstore_response(message_id, class_uid, instance_uid) ==
    << Elem("AffectedSOPClassUID", "UI", 0, class_uid),
       Elem("CommandField", "US", 32769, EmptyStr),
       Elem("MessageIDBeingRespondedTo", "US", message_id, EmptyStr),
       Elem("CommandDataSetType", "US", 257, EmptyStr),
       Elem("Status", "US", 0, EmptyStr),
       Elem("AffectedSOPInstanceUID", "UI", 0, instance_uid) >>

\* A response sent on the first negotiated presentation context.
ResponsePduOnFirstContext(pcid, m, c, i) ==
    [type |-> "PData",
     data |-> << PDataValue(presentation_contexts[1].id, "Command", TRUE,
                            create_cstore_response(m, c, i)) >>]

\* lines 253-271: the response PDU
ResponsePdu(pcid, m, c, i) ==
    [type |-> "PData",
     data |-> << PDataValue(pcid, "Command", TRUE,
                            create_cstore_response(m, c, i)) >>]

\* A response sent before the file is written.
StoreEventsSendFirst(u, err) ==
    IF err \in { NoError, "failed to send response object to SCU" }
    THEN << Event("send", "PData", u, err = NoError),
            Event("write", "file", u, TRUE) >>
    ELSE << >>

\* lines 242-245 and 272-275: the file is written, then the response sent.
Wrote(err) ==
    err \in { NoError, "failed to send response object to SCU" }
StoreEvents(u, err) ==
    IF Wrote(err)
    THEN << Event("write", "file", u, TRUE),
            Event("send", "PData", u, err = NoError) >>
    ELSE << >>

\* The number of the data unit a terminal Data PDV completes: every unit
\* before it was written, or the session would have ended.
UnitsWritten(ev) == Cardinality({ i \in 1..Len(ev) : ev[i].kind = "write" })

\* A write or a send that is never reached has no outcome to choose.
IoReached(buf, pcid, write_ok, send_ok) ==
    /\ DataError(buf, pcid, TRUE, TRUE) /= NoError => write_ok /\ send_ok
    /\ ~write_ok => send_ok

\* lines 200-276: Data, last.
DispatchData ==
    /\ CanDispatch
    /\ \E pdv \in Pdvs, write_ok \in BOOLEAN, send_ok \in BOOLEAN :
         /\ pdv.value_type = "Data" /\ pdv.is_last
         /\ Fits(pdv)
         /\ IoReached(AppendFragment(instance_buffer, pdv.data),
                      pdv.presentation_context_id, write_ok, send_ok)
         /\ step' = [NoStep EXCEPT !.pdv = pdv, !.write_ok = write_ok,
                                    !.send_ok = send_ok]
         /\ LET buf == AppendFragment(instance_buffer, pdv.data)
                pcid == pdv.presentation_context_id
                err == DataError(buf, pcid, write_ok, send_ok)
                u == UnitsWritten(events) + 1
            IN  /\ instance_buffer' = buf
                /\ unit' = [n |-> u, bytes |-> buf,
                            frags |-> Append(frags, pdv.data),
                            pcs |-> frag_pcs,
                            after |-> prev_terminal,
                            cmd |-> last_cmd, err |-> err]
                /\ prev_terminal' = "Data"
                /\ frags' = << >>
                /\ frag_pcs' = {}
                /\ tally' = [term |-> tally.term + 1,
                             ok |-> tally.ok + (IF err = NoError THEN 1 ELSE 0)]
                /\ events' = events \o StoreEvents(u, err)
                /\ written' = IF Wrote(err)
                              THEN StoredFile(buf, pcid, sop_instance_uid)
                              ELSE NoFile
                /\ sent' = IF err = NoError
                           THEN ResponsePdu(pcid, msgid, sop_class_uid,
                                            sop_instance_uid)
                           ELSE NoPdu
                /\ IF err = NoError
                   THEN NextPdv /\ UNCHANGED << result, state, cause >>
                   ELSE Fatal(err)
    /\ UNCHANGED << msgid, sop_class_uid, sop_instance_uid, teardown_log,
                    nrecv, pdu, last_cmd >>

Next ==
    \/ ReceivePData
    \/ ReceiveReleaseRQ
    \/ ReceiveAbortRQ
    \/ ReceiveOther
    \/ ReceiveError
    \/ DispatchFragment
    \/ DispatchIgnored
    \/ DispatchCommand
    \/ DispatchData
    \/ Teardown

Spec == Init /\ [][Next]_vars

\* The session's own steps complete: a PDV in hand is dispatched (decode,
\* write and send included) and the teardown step runs. The peer ends the
\* association: a Release-Request, an abort or a receive error is delivered
\* to a session that keeps calling receive().
Dispatch ==
    DispatchFragment \/ DispatchIgnored \/ DispatchCommand \/ DispatchData
EndingReceive == ReceiveReleaseRQ \/ ReceiveAbortRQ \/ ReceiveError
FairSpec ==
    /\ Spec
    /\ WF_vars(Dispatch)
    /\ WF_vars(Teardown)
    /\ SF_vars(EndingReceive)

\* ----------------------------------------------------------- properties
IsRecv(e, w) == e.kind = "recv" /\ e.what = w
IsSend(e, w) == e.kind = "send" /\ e.what = w
HasBad(bytes) == \E i \in 1..Len(bytes) : bytes[i].tag = "BAD"
Lacks(bytes, t) == \A i \in 1..Len(bytes) : bytes[i].tag /= t
Ended == pc \in { "teardown", "returned" }
TerminalData == step.pdv.value_type = "Data" /\ step.pdv.is_last
TerminalCommand == step.pdv.value_type = "Command" /\ step.pdv.is_last

\* C1: every store response in the order of events comes directly after the
\* file write of the same data unit, a response is sent only by a step that
\* wrote a file, and a unit whose bytes cannot be decoded or whose write
\* fails gets no response.
C1_ResponseAfterWrite ==
    /\ \A i \in 1..Len(events) :
          IsSend(events[i], "PData") =>
              /\ i > 1
              /\ events[i-1].kind = "write"
              /\ events[i-1].unit = events[i].unit
    /\ sent.type = "PData" => (written /= NoFile /\ unit.n > 0)
    /\ (unit.n > 0 /\ (HasBad(unit.bytes) \/ ~step.write_ok)) =>
          /\ sent = NoPdu
          /\ written = NoFile
          /\ \A i \in 1..Len(events) : events[i].unit /= unit.n
C1_Witness == sent.type = "PData" /\ unit.n = 2 /\ Len(events) = 4

\* C2: a store response carries the message id and the affected class and
\* instance UIDs of the command unit completed last before the data unit.
ResponseElement(p, t) == Element(p.data[1].data, t)
C2_ResponseEchoesRequest ==
    (sent.type = "PData" /\ unit.cmd.set) =>
        /\ ResponseElement(sent, "MessageIDBeingRespondedTo").num = unit.cmd.msgid
        /\ ResponseElement(sent, "AffectedSOPClassUID").str = unit.cmd.sop_class_uid
        /\ ResponseElement(sent, "AffectedSOPInstanceUID").str
               = unit.cmd.sop_instance_uid
C2_Witness ==
    /\ sent.type = "PData" /\ unit.n = 2
    /\ unit.cmd = RequestOf(CommandSet(9, ClassB, InstAPadded))

\* C3: no file is written and no response is sent before a command unit
\* has populated the pending request state.
C3_PopulatedBeforeStore ==
    (written /= NoFile \/ sent.type = "PData") =>
        /\ last_cmd.set
        /\ ~(msgid = InitMsgId /\ sop_class_uid = EmptyStr
                /\ sop_instance_uid = EmptyStr)

\* C4: on an association whose request state a command unit has populated,
\* the buffer is empty once a data unit has been decoded, written and
\* acknowledged, and every data unit is decoded from its own fragments only.
C4_BufferEmptyForNewUnit ==
    /\ (unit.n > 0 /\ unit.cmd.set /\ unit.err = NoError) =>
          instance_buffer = << >>
    /\ (unit.n > 0 /\ unit.cmd.set) => unit.bytes = Flatten(unit.frags)

\* C5: a data unit that follows a completed command unit is decoded from the
\* concatenation of its fragments, and the file written is the one a single
\* terminal Data PDV holding those bytes gives.
C5_FragmentsReassembled ==
    (unit.n > 0 /\ unit.after = "Command") =>
        /\ unit.bytes = Flatten(unit.frags)
        /\ written /= NoFile =>
              written = StoredFile(Flatten(unit.frags),
                                   step.pdv.presentation_context_id,
                                   unit.cmd.sop_instance_uid)
C5_Witness ==
    /\ unit.after = "Command" /\ Len(unit.frags) = 2 /\ pdu.len = 1
    /\ written /= NoFile
    /\ unit.bytes = <<SopClassElem, SopInstanceElem>>

\* C6: a release request is followed by exactly one release-response send,
\* which is the last thing the session does with the peer, and a release
\* response is sent only directly after a release request.
C6_ReleaseSymmetry ==
    /\ \A i \in 1..Len(events) :
          IsSend(events[i], "ReleaseRP") =>
              (i > 1 /\ IsRecv(events[i-1], "ReleaseRQ"))
    /\ \A i \in 1..Len(events) :
          IsRecv(events[i], "ReleaseRQ") =>
              (i + 1 = Len(events) /\ IsSend(events[i+1], "ReleaseRP"))
    /\ pdu.type = "ReleaseRQ" <=> state = "Released"
    /\ state = "Released" =>
          /\ Ended
          /\ Len(events) >= 2
          /\ IsRecv(events[Len(events) - 1], "ReleaseRQ")
C6_Witness == state = "Released" /\ UnitsWritten(events) >= 1

\* C7: after an abort the loop has ended, and the receipt of the abort is the
\* last event: nothing is sent and no file is written.
C7_AbortSilence ==
    /\ pdu.type = "AbortRQ" <=> state = "Aborted"
    /\ state = "Aborted" =>
          /\ Ended
          /\ sent = NoPdu /\ written = NoFile
          /\ Len(events) >= 1
          /\ IsRecv(events[Len(events)], "AbortRQ")
C7_Witness ==
    state = "Aborted" /\ pc = "returned" /\ UnitsWritten(events) >= 1

\* C8: the step that receives a P-DATA PDU without PDVs changes neither the
\* buffer nor the pending request state, sends and writes nothing, and
\* leaves the session running at receive().
C8_EmptyPDataIsNoop ==
    [][ (pdu' = Received("PData", 0) /\ nrecv' = nrecv + 1) =>
            /\ UNCHANGED << instance_buffer, msgid, sop_class_uid,
                            sop_instance_uid, events >>
            /\ sent' = NoPdu /\ written' = NoFile
            /\ state' = "Running"
            /\ pc' = "receive" ]_vars
C8_Witness ==
    /\ pdu = Received("PData", 0) /\ pc = "receive"
    /\ instance_buffer /= << >> /\ last_cmd.set

\* C9 as stated: however the loop ends, the teardown line is logged and the
\* completion value returned.
C9_EveryEndTearsDown ==
    pc = "returned" => (teardown_log /= "none" /\ result = OkTrue)

\* C9 as amended: after a release request, an abort or a receive error the
\* teardown line is logged and Ok(true) returned; a fatal processing error
\* is returned to the caller at once, without the teardown line.
C9_TeardownUnlessFatal ==
    /\ state /= "Running" <=> Ended
    /\ Ended => cause \in { "release", "abort", "receive_error", "fatal" }
    /\ (pc = "returned" /\ cause /= "fatal") =>
          (teardown_log /= "none" /\ result = OkTrue)
    /\ cause = "fatal" =>
          /\ pc = "returned"
          /\ teardown_log = "none"
          /\ ~result.ok /\ result.err \notin { NoError, "pending" }
C9_Witness ==
    /\ pc = "returned" /\ cause = "fatal" /\ teardown_log = "none"
    /\ result = Err("could not save DICOM object to file")

\* C10: a terminal PDV that cannot be decoded, lacks a required element or
\* names an unknown presentation context, and a failed write or send, end
\* the session in Failed with no response for the unit, and no step is taken
\* afterwards.
BadCommandInput ==
    /\ TerminalCommand
    /\ \/ HasBad(step.pdv.data)
       \/ Lacks(step.pdv.data, "CommandField")
       \/ Lacks(step.pdv.data, "MessageID")
       \/ Lacks(step.pdv.data, "AffectedSOPClassUID")
       \/ Lacks(step.pdv.data, "AffectedSOPInstanceUID")
BadDataInput ==
    /\ TerminalData
    /\ \/ HasBad(unit.bytes)
       \/ Lacks(unit.bytes, "SOPClassUID")
       \/ Lacks(unit.bytes, "SOPInstanceUID")
       \/ \A i \in 1..Len(presentation_contexts) :
             presentation_contexts[i].id /= step.pdv.presentation_context_id
       \/ ~step.write_ok
       \/ ~step.send_ok
C10_FatalInput ==
    (BadCommandInput \/ BadDataInput) =>
        /\ state = "Failed" /\ cause = "fatal"
        /\ pc = "returned" /\ ~result.ok
        /\ sent = NoPdu
        /\ \A i \in 1..Len(events) :
              (IsSend(events[i], "PData") /\ events[i].unit = unit.n) =>
                  ~events[i].ok
C10_FatalEndsSession ==
    /\ []C10_FatalInput
    /\ [][cause /= "fatal"]_vars
C10_Witness ==
    /\ BadDataInput /\ state = "Failed"
    /\ data_left > 0 /\ nrecv < MaxPdus

\* C11: a step taken once the session has left Running receives nothing,
\* sends nothing, writes no file, leaves the buffer and the request state
\* alone and keeps the session in the terminal state it is in.
C11_TerminalStatesStay ==
    [][ state /= "Running" =>
            /\ state' = state /\ cause' = cause
            /\ nrecv' = nrecv /\ pdu' = pdu
            /\ events' = events
            /\ sent' = NoPdu /\ written' = NoFile
            /\ UNCHANGED prog
            /\ pc' = "returned" ]_vars
C11_Witness ==
    /\ state = "Failed" /\ cause = "receive_error" /\ pc = "returned"
    /\ UnitsWritten(events) >= 1

\* The prefix of s that ends at its last character other than NUL.
WithoutTrailingNuls(s) ==
    LET keep == { i \in 1..Len(s) : s[i] /= NUL }
        k == IF keep = {} THEN 0
             ELSE CHOOSE i \in keep : \A j \in keep : j <= i
    IN  SubSeq(s, 1, k)

ReleaseAnswered(ok) ==
    /\ events /= << >>
    /\ IsSend(events[Len(events)], "ReleaseRP")
    /\ events[Len(events)].ok = ok
C13_OnlyReleaseSendIsNonFatal ==
    /\ \A ok \in BOOLEAN :
          ReleaseAnswered(ok) =>
              /\ state = "Released" /\ cause = "release"
              /\ pc \in { "teardown", "returned" }
              /\ pc = "teardown" => result = NoResult
              /\ pc = "returned" =>
                    (result = OkTrue /\ teardown_log /= "none")
    /\ \A i \in 1..Len(events) :
          (~events[i].ok /\ ~IsSend(events[i], "ReleaseRP")) =>
              /\ IsSend(events[i], "PData")
              /\ i = Len(events)
              /\ state = "Failed" /\ cause = "fatal" /\ pc = "returned"
              /\ result = Err("failed to send response object to SCU")
              /\ teardown_log = "none"
    /\ (TerminalData /\ ~step.send_ok) =>
          (state = "Failed" /\ cause = "fatal" /\ sent = NoPdu)
    /\ (TerminalData /\ ~step.write_ok) =>
          (state = "Failed" /\ cause = "fatal" /\ written = NoFile)
C13_Witness ==
    /\ ReleaseAnswered(FALSE)
    /\ state = "Released" /\ pc = "returned"
    /\ result = OkTrue /\ teardown_log /= "none"
    /\ UnitsWritten(events) >= 1

\* C15: a P-DATA PDU sent by the session is the output of a step on a
\* terminal Data PDV and holds exactly one PDV, of kind Command, terminal,
\* on the presentation context of that Data PDV; the only other PDU the
\* session sends is the Release-Response.
C15_ResponseIsOneTerminalCommandPdv ==
    /\ sent.type \in { "none", "ReleaseRP", "PData" }
    /\ sent.type = "PData" =>
          /\ TerminalData
          /\ Len(sent.data) = 1
          /\ sent.data[1].value_type = "Command"
          /\ sent.data[1].is_last
          /\ sent.data[1].presentation_context_id =
                step.pdv.presentation_context_id
C15_Witness ==
    /\ sent.type = "PData"
    /\ TerminalData
    /\ step.pdv.presentation_context_id = 3
    /\ sent.data[1].presentation_context_id = 3
    /\ unit.cmd.set

\* C14: a data unit that is decoded and stored was reconstructed only from
\* Data fragments received on the presentation context of its terminal PDV,
\* the one whose transfer syntax it is decoded with.
C14_OneContextPerUnit ==
    (TerminalData /\ written /= NoFile
       /\ unit.cmd.set /\ unit.after = "Command") =>
        /\ unit.pcs \subseteq { step.pdv.presentation_context_id }
        /\ written.meta.transfer_syntax =
              TransferSyntaxOf(step.pdv.presentation_context_id)

\* C16: a terminal Command PDV is accepted or rejected on its own payload,
\* whatever the buffer holds; once accepted the buffer is empty, the Data
\* fragments received before it are gone, the pending request state holds
\* the message id and the two affected UIDs of that payload, and the data
\* unit completed next is made of the fragments received after the command.
HoldsNum(v, t, n) == \E i \in 1..Len(v) : v[i].tag = t /\ v[i].num = n
HoldsStr(v, t, x) == \E i \in 1..Len(v) : v[i].tag = t /\ v[i].str = x
C16_CommandResetsBuffer ==
    /\ (TerminalCommand /\ step.pdv.data \in GoodCommands) =>
          state = "Running"
    /\ (TerminalCommand /\ state = "Running") =>
          /\ instance_buffer = << >>
          /\ frags = << >> /\ frag_pcs = {}
          /\ HoldsNum(step.pdv.data, "MessageID", msgid)
          /\ HoldsStr(step.pdv.data, "AffectedSOPClassUID", sop_class_uid)
          /\ HoldsStr(step.pdv.data, "AffectedSOPInstanceUID",
                      sop_instance_uid)
          /\ last_cmd = [set |-> TRUE, msgid |-> msgid,
                         sop_class_uid |-> sop_class_uid,
                         sop_instance_uid |-> sop_instance_uid]
          /\ written = NoFile /\ sent = NoPdu
    /\ (prev_terminal = "Command" /\ cause /= "fatal") =>
          /\ instance_buffer = Flatten(frags)
          /\ last_cmd = [set |-> TRUE, msgid |-> msgid,
                         sop_class_uid |-> sop_class_uid,
                         sop_instance_uid |-> sop_instance_uid]
    /\ (TerminalData /\ unit.after = "Command") =>
          unit.bytes = Flatten(unit.frags)
C16_Witness ==
    /\ TerminalCommand /\ state = "Running"
    /\ step.dropped > 0
    /\ instance_buffer = << >>
    /\ step.pdv.data = CommandSet(9, ClassB, InstAPadded)
    /\ sop_instance_uid = InstAPadded

\* C17: the step that dispatches a non-terminal Command PDV leaves the
\* reassembly buffer, the pending request state and the record of received
\* fragments as they were, sends nothing, writes nothing, decodes nothing
\* and leaves the session Running.
C17_CommandFragmentIsNoop ==
    [][ (step'.pdv.value_type = "Command" /\ ~step'.pdv.is_last) =>
            /\ UNCHANGED << prog, events, ghost, state, cause, result >>
            /\ sent' = NoPdu /\ written' = NoFile /\ unit' = NoUnit
            /\ state' = "Running" ]_vars
C17_Witness ==
    /\ step.pdv.value_type = "Command" /\ ~step.pdv.is_last
    /\ step.pdv.data = CommandSet(7, ClassA, InstA)
    /\ last_cmd.set /\ msgid = 9
    /\ instance_buffer /= << >>
    /\ state = "Running"

\* C18: a session that is no longer Running got there by a Release-Request,
\* an abort, a receive error or a processing error on a terminal PDV; after
\* any other PDU, an empty P-DATA or a stored and acknowledged object it is
\* Running, with receive() next once the PDVs of the PDU are used up, and the
\* receipt of such a PDU changes neither the buffer nor the pending state.
C18_EndsOnlyOnFourCauses ==
    /\ state = "Running" <=> cause = "none"
    /\ cause = "release" => (pdu.type = "ReleaseRQ" /\ state = "Released")
    /\ cause = "abort" => (pdu.type = "AbortRQ" /\ state = "Aborted")
    /\ cause = "receive_error" => (pdu.type = "error" /\ state = "Failed")
    /\ cause = "fatal" =>
          /\ pdu.type = "PData" /\ state = "Failed"
          /\ TerminalData \/ TerminalCommand
          /\ ~result.ok /\ result.err /= "pending"
    /\ pdu.type = "Other" => (state = "Running" /\ pc = "receive")
    /\ (pdu.type = "PData" /\ pdu.len = 0) =>
          (state = "Running" /\ pc = "receive")
    /\ (TerminalData /\ unit.err = NoError) =>
          (state = "Running" /\ written /= NoFile /\ sent.type = "PData")
    /\ state = "Running" =>
          /\ pc \in { "receive", "dispatch" }
          /\ pc = "receive" <=> data_left = 0
C18_LoopContinues ==
    /\ []C18_EndsOnlyOnFourCauses
    /\ [][ (/\ nrecv' = nrecv + 1
            /\ \/ pdu'.type = "Other"
               \/ (pdu'.type = "PData" /\ pdu'.len = 0)) =>
              /\ UNCHANGED << prog, events, ghost, state, cause, result >>
              /\ pc' = "receive" ]_vars
C18_Witness ==
    /\ pdu.type = "Other"
    /\ last_cmd.set /\ instance_buffer /= << >>
    /\ state = "Running" /\ pc = "receive"

\* The store responses sent and the files written so far.
Responses ==
    Cardinality({ i \in 1..Len(events) :
                     IsSend(events[i], "PData") /\ events[i].ok })
Files == UnitsWritten(events)
OnlyTerminalDataResponds ==
    /\ sent.type = "PData" => TerminalData
    /\ \A i \in 1..Len(events) :
          IsSend(events[i], "PData") =>
              /\ i > 1
              /\ events[i-1].kind = "write"
              /\ events[i-1].unit = events[i].unit
    /\ \A i \in 1..Len(events) :
          events[i].kind = "write" =>
              /\ i < Len(events)
              /\ IsSend(events[i+1], "PData")
              /\ events[i].unit = Cardinality({ j \in 1..i :
                                                   events[j].kind = "write" })

FailedBeforeWrite ==
    IF TerminalData /\ unit.err /= NoError /\ ~Wrote(unit.err) THEN 1 ELSE 0
LastSendFailed ==
    /\ events /= << >>
    /\ IsSend(events[Len(events)], "PData")
    /\ ~events[Len(events)].ok
C19_EventuallyTerminal ==
    <>(state \in { "Released", "Aborted", "Failed" } /\ pc = "returned")
C19_Witness ==
    /\ state = "Released" /\ pc = "returned"
    /\ nrecv = MaxPdus + 1
    /\ Files >= 1

====
